---- MODULE Spec2Model ----
(***************************************************************************)
(* gitdup: duplicate the current project directory, reset tracked changes, *)
(* optionally clean, check out a branch or a pull request, and install     *)
(* dependencies of package-based projects.                                 *)
(*                                                                         *)
(* A file name is a sequence of tokens in which every "." character is a   *)
(* token of its own (".git" is <<".", "git">>), a path is a sequence of    *)
(* names, and the file system is a function from absolute paths to the     *)
(* content of the entry (DIR for a directory).                             *)
(***************************************************************************)
EXTENDS Integers, Sequences, FiniteSets, TLC

VARIABLES
    fs,         \* the file system: absolute path -> content
    cwd,        \* process.cwd(), the source directory
    opts,       \* the GitDupOptions the call was made with
    repo,       \* the object store under .git: trees, ignore rules
    pc,         \* the await point gitdup is suspended at
    dest,       \* the resolved destination
    probe,      \* defaultDest's loop counter i
    isNode,     \* the isNode constant of gitdup
    pm,         \* the package manager detectPackageManager returned
    child,      \* the external process being awaited
    cmds,       \* every process spawned so far, in order
    events,     \* every progress event emitted so far, in order
    wt,         \* what the destination's git work tree has checked out
    refs,       \* local references created in the destination
    checkedOut, \* the checkedOut local of gitdup
    outcome,    \* how the promise settled
    fs0,        \* the file system when gitdup was called
    clock,      \* the system clock, read by new Date()
    tools,      \* what spawning each package manager's executable does
    stamped,    \* the time-stamped names defaultDest returned, with the time
    trace       \* what happened so far, in order: spawns, closes, events

vars == <<fs, cwd, opts, repo, pc, dest, probe, isNode, pm, child, cmds,
          events, wt, refs, checkedOut, outcome, fs0, clock, tools,
          stamped, trace>>

---------------------------------------------------------------------------
(* Bounds of the model *)

\* PR numbers are drawn from 1..MaxPr
MaxPr == 2

\* how many calls of defaultDest are followed when its names are compared
MaxResolutions == 2
\* the first k numbered candidates of the resolver exist, k in 0..MaxOccupied
MaxOccupied == 2
\* seconds and minutes of the clock are drawn from 0..MaxClock
MaxClock == 2

(* Program constants *)

\* the bound of defaultDest's loop
MaxAttempts == 1000
\* the length of the timestamp kept by slice(0, 12)
StampLen == 12

---------------------------------------------------------------------------
(* Names *)

DIR == "dir"
None == "none"

DOTDOT == <<".", ".">>
GIT == <<".", "git">>
INDEX == <<"index">>
HEAD == <<"HEAD">>
NODE_MODULES == <<"node_modules">>
PACKAGE_JSON == <<"package", ".", "json">>

---------------------------------------------------------------------------
(* node:path on POSIX *)

IsPrefix(p, q) == Len(p) <= Len(q) /\ SubSeq(q, 1, Len(p)) = p

\* the number of leading components two paths share
CommonLen(a, b) ==
    LET m == IF Len(a) < Len(b) THEN Len(a) ELSE Len(b)
        agree == {k \in 0..m : SubSeq(a, 1, k) = SubSeq(b, 1, k)}
    IN  CHOOSE k \in agree : \A j \in agree : j <= k

\* path.relative(from, to) of two absolute normalized paths: its components
Relative(from, to) ==
    LET k == CommonLen(from, to)
    IN  [i \in 1..(Len(from) - k) |-> DOTDOT] \o SubSeq(to, k + 1, Len(to))

RECURSIVE JoinPath(_)
\* the characters of a relative path: its components joined by "/"
JoinPath(p) ==
    IF p = <<>> THEN <<>>
    ELSE IF Len(p) = 1 THEN p[1]
    ELSE p[1] \o <<"/">> \o JoinPath(Tail(p))

\* String.prototype.startsWith('..')
StartsWithDotDot(s) == Len(s) >= 2 /\ s[1] = "." /\ s[2] = "."

\* path.isAbsolute of a string
IsAbsolute(s) == Len(s) >= 1 /\ s[1] = "/"

RECURSIVE Normalize(_, _)
\* path.resolve: walk the segments from a base, "." stays and ".." goes up
Normalize(base, segs) ==
    IF segs = <<>> THEN base
    ELSE IF Head(segs) = <<".">> THEN Normalize(base, Tail(segs))
    ELSE IF Head(segs) = DOTDOT
         THEN Normalize(IF base = <<>> THEN base
                        ELSE SubSeq(base, 1, Len(base) - 1), Tail(segs))
    ELSE Normalize(Append(base, Head(segs)), Tail(segs))

\* path.resolve(d) for a destination string d
Resolve(base, d) == Normalize(IF d.abs THEN <<>> ELSE base, d.segs)

Dirname(p) == SubSeq(p, 1, Len(p) - 1)
Basename(p) == p[Len(p)]

---------------------------------------------------------------------------
(* node:fs *)

Exists(f, p) == p \in DOMAIN f

AncestorsOf(p) == {SubSeq(p, 1, k) : k \in 0..(Len(p) - 1)}

\* the entries strictly below a directory
Below(f, d) == {p \in DOMAIN f : IsPrefix(d, p) /\ p # d}

Readdir_none(f, d) == {}

\* readdir: the names of the entries of a directory
Readdir(f, d) == {p[Len(d) + 1] : p \in Below(f, d)}

\* write entries (a function from paths to contents), creating parents
WriteAll(f, w) ==
    LET parents == UNION {AncestorsOf(p) : p \in DOMAIN w}
        dom == DOMAIN f \cup DOMAIN w \cup parents
    IN  [p \in dom |-> IF p \in DOMAIN w THEN w[p]
                       ELSE IF p \in DOMAIN f THEN f[p] ELSE DIR]

\* mkdir(p, {recursive: true})
Mkdir(f, p) == WriteAll(f, [q \in {p} |-> DIR])

RemoveAll(f, S) == [p \in DOMAIN f \ S |-> f[p]]

---------------------------------------------------------------------------
(* The helpers of gitdup *)

pathExists(f, p) == Exists(f, p)

\* !!rel && !rel.startsWith('..') && !path.isAbsolute(rel)
isSubPath(parent, to) ==
    LET rel == JoinPath(Relative(parent, to))
    IN  rel # <<>> /\ ~StartsWithDotDot(rel) /\ ~IsAbsolute(rel)

ensureGitRepo_late(f, dir) == TRUE

\* ensureGitRepo throws unless <dir>/.git exists
ensureGitRepo(f, dir) == pathExists(f, Append(dir, GIT))

isNodeProject_always(f, dir) == TRUE

isNodeProject(f, dir) == pathExists(f, Append(dir, PACKAGE_JSON))

\* p.split(path.sep).includes('node_modules')
pathHasNodeModules(p) == \E i \in 1..Len(p) : p[i] = NODE_MODULES

CopyFilter_everything(root, node, src) == TRUE

CopyFilter_keepAll(root, node, src) ==
    Relative(root, src) # <<GIT, INDEX>>

\* the filter handed to fs.cp, for the source entry src
CopyFilter(root, node, src) ==
    LET rel == Relative(root, src)
    IN  IF rel = <<GIT, INDEX>> THEN FALSE
        ELSE IF node THEN ~pathHasNodeModules(src)
        ELSE TRUE

\* fs.cp walks the tree from the root and asks the filter for every entry it
\* meets, the root included: an entry is copied when the filter accepts it
\* and every directory above it up to the root
Copied(f, root, node) ==
    {p \in {root} \cup Below(f, root) :
        \A k \in Len(root)..Len(p) : CopyFilter(root, node, SubSeq(p, 1, k))}

\* fs.cp refuses to copy a directory into itself (ERR_FS_CP_EINVAL), by
\* components
CpIntoSelf(root, to) == IsPrefix(root, to)

\* fs.cp(root, to, {recursive: true, force: false, filter}) when it succeeds
Cp(f, root, to, node) ==
    LET S == Copied(f, root, node)
        target(p) == to \o SubSeq(p, Len(root) + 1, Len(p))
        tgts == {target(p) : p \in S} \ DOMAIN f
        w == [q \in tgts |-> f[CHOOSE p \in S : target(p) = q]]
    IN  WriteAll(f, w)

---------------------------------------------------------------------------
(* The default destination *)

DigitChar == <<"0", "1", "2", "3", "4", "5", "6", "7", "8", "9">>

RECURSIVE Decimal(_)
\* String(n) for a natural number: its decimal digits
Decimal(n) ==
    IF n < 10 THEN <<DigitChar[n + 1]>>
    ELSE Decimal(n \div 10) \o <<DigitChar[(n % 10) + 1]>>

RECURSIVE Padded(_, _)
\* a number padded with zeros to a width
Padded(n, w) ==
    IF w = 0 THEN <<>>
    ELSE Padded(n \div 10, w - 1) \o <<DigitChar[(n % 10) + 1]>>

\* Date.prototype.toISOString: YYYY-MM-DDTHH:mm:ss.sssZ
toISOString(d) ==
    Padded(d.year, 4) \o <<"-">> \o Padded(d.month, 2) \o <<"-">>
    \o Padded(d.day, 2) \o <<"T">> \o Padded(d.hour, 2) \o <<":">>
    \o Padded(d.minute, 2) \o <<":">> \o Padded(d.second, 2) \o <<".">>
    \o Padded(d.ms, 3) \o <<"Z">>

\* replace(/[-:T]/g, '')
StripSeparators(s) == SelectSeq(s, LAMBDA c : c \notin {"-", ":", "T"})

\* slice(0, n)
Slice(s, n) == SubSeq(s, 1, IF Len(s) < n THEN Len(s) ELSE n)

Stamp_hours(d) == Slice(StripSeparators(toISOString(d)), StampLen - 2)

\* new Date().toISOString().replace(/[-:T]/g, '').slice(0, 12)
Stamp(d) == Slice(StripSeparators(toISOString(d)), StampLen)

\* `${base}-dup`
DupName(base) == base \o <<"-dup">>

\* `${base}-dup-${i}`
DupNameN(base, i) == base \o <<"-dup-">> \o Decimal(i)

\* `${base}-dup-${stamp}`
DupNameStamp(base, d) == base \o <<"-dup-">> \o Stamp(d)

\* the path defaultDest returns after its loop, at the time now
FallbackName(dir, now) ==
    Append(Dirname(dir), DupNameStamp(Basename(dir), now))

\* the i-th candidate of defaultDest, the unnumbered one being candidate 0
Candidate_numbered(dir, i) ==
    Append(Dirname(dir), DupNameN(Basename(dir), i))

\* the i-th candidate of defaultDest for the directory dir
Candidate(dir, i) ==
    IF i = 0 THEN Append(Dirname(dir), DupName(Basename(dir)))
    ELSE Append(Dirname(dir), DupNameN(Basename(dir), i))

---------------------------------------------------------------------------
(* git.  A tree is a function from the paths of the tracked files,       *)
(* relative to the work tree, to their committed contents.                *)

HasRepo(f, d) == Exists(f, Append(d, GIT))

\* a git command can only succeed where git finds a repository: in the
\* directory it runs in, or in the nearest directory above that has a .git
GitWorks(f, d) == \E k \in 0..Len(d) : HasRepo(f, SubSeq(d, 1, k))

\* the work tree of the repository git finds from the directory d
GitRoot(f, d) ==
    LET ks == {k \in 0..Len(d) : HasRepo(f, SubSeq(d, 1, k))}
    IN  SubSeq(d, 1, CHOOSE k \in ks : \A j \in ks : j <= k)

InGitDir(rel) == Len(rel) >= 1 /\ rel[1] = GIT

\* the directories below d, outside .git, that hold no file any more
EmptyDirs(f, d) ==
    {p \in Below(f, d) :
        /\ f[p] = DIR
        /\ ~InGitDir(SubSeq(p, Len(d) + 1, Len(p)))
        /\ \A q \in Below(f, p) : f[q] = DIR}

Prune(f, d) == RemoveAll(f, EmptyDirs(f, d))

\* the files of the work tree root that git sees as untracked
Untracked(f, root, tree) ==
    {p \in Below(f, root) :
        LET rel == SubSeq(p, Len(root) + 1, Len(p))
        IN  f[p] # DIR /\ ~InGitDir(rel) /\ rel \notin DOMAIN tree}

\* git reset --hard: every tracked file gets its committed content and the
\* index is written anew; untracked files are left alone
GitResetHard(f, root, tree) ==
    WriteAll(f,
       [q \in {root \o p : p \in DOMAIN tree} \cup {root \o <<GIT, INDEX>>} |->
           IF q = root \o <<GIT, INDEX>> THEN "index:rebuilt"
           ELSE tree[SubSeq(q, Len(root) + 1, Len(q))]])

\* git clean -fd, run in the directory at of the work tree: untracked files
\* and directories below at go, ignored ones stay
GitClean(f, root, at, tree, ignored) ==
    LET gone == {p \in Untracked(f, root, tree) :
                    /\ IsPrefix(at, p)
                    /\ SubSeq(p, Len(root) + 1, Len(p)) \notin ignored}
        g == RemoveAll(f, gone)
    IN  RemoveAll(g, EmptyDirs(g, root) \cap Below(g, at))

\* git checkout refuses to overwrite an untracked file that is not ignored
\* (an ignored one it overwrites silently)
CheckoutBlocked(f, root, from, to, ignored) ==
    \E p \in DOMAIN to \ DOMAIN from :
        Exists(f, root \o p) /\ p \notin ignored

\* git checkout <ref>, from the tree checked out to the tree of the ref
GitCheckout(f, root, from, to) ==
    LET gone == {root \o p : p \in DOMAIN from \ DOMAIN to}
        kept == Prune(RemoveAll(f, gone \cap DOMAIN f), root)
    IN  WriteAll(kept, [q \in {root \o p : p \in DOMAIN to} |->
                           to[SubSeq(q, Len(root) + 1, Len(q))]])

-----
(* Package managers *)

PackageManagers == {"bun", "pnpm", "yarn", "npm"}

BUN_LOCKB == <<"bun", ".", "lockb">>
PNPM_LOCK == <<"pnpm-lock", ".", "yaml">>
YARN_LOCK == <<"yarn", ".", "lock">>
PACKAGE_LOCK == <<"package-lock", ".", "json">>

\* spawning an executable: it runs and exits 0 ("ok"), it runs and exits with
\* another code ("fails"), or it cannot be started ("missing")
Status == {"ok", "fails", "missing"}

\* before detectPackageManager has spawned anything
Unprobed == [m \in PackageManagers |-> "unprobed"]

NoPm == [cmd |-> "", args |-> <<>>]

\* has(cmd): `cmd --version` exits 0
has(avail, cmd) == cmd \in avail

\* the executable pmCommandFor probes for a manager name
ProbedFor(name) == IF name \in {"bun", "pnpm", "yarn"} THEN name ELSE "npm"

pmCommandFor_plain(name, f, dir, avail) ==
    IF has(avail, ProbedFor(name))
    THEN [cmd |-> ProbedFor(name), args |-> <<"install">>]
    ELSE NoPm

\* pmCommandFor(pm, dir): the install command of a manager, null (NoPm) when
\* its executable is not invocable
pmCommandFor(name, f, dir, avail) ==
    CASE name = "bun" ->
           IF has(avail, "bun") THEN [cmd |-> "bun", args |-> <<"install">>]
           ELSE NoPm
      [] name = "pnpm" ->
           IF has(avail, "pnpm")
           THEN [cmd |-> "pnpm",
                 args |-> IF pathExists(f, Append(dir, PNPM_LOCK))
                          THEN <<"install", "--frozen-lockfile">>
                          ELSE <<"install">>]
           ELSE NoPm
      [] name = "yarn" ->
           IF has(avail, "yarn") THEN [cmd |-> "yarn", args |-> <<"install">>]
           ELSE NoPm
      [] OTHER ->
           IF has(avail, "npm")
           THEN [cmd |-> "npm",
                 args |-> IF pathExists(f, Append(dir, PACKAGE_LOCK))
                          THEN <<"ci">> ELSE <<"install">>]
           ELSE NoPm

RECURSIVE ConcatTokens(_)
ConcatTokens(s) == IF s = <<>> THEN "" ELSE Head(s) \o ConcatTokens(Tail(s))

\* pkg.packageManager.split('@')[0]
ManagerName(field) ==
    LET ats == {i \in 1..Len(field) : field[i] = "@"}
        cut == IF ats = {} THEN Len(field)
               ELSE (CHOOSE i \in ats : \A j \in ats : i <= j) - 1
    IN  ConcatTokens(SubSeq(field, 1, cut))

\* JSON.parse of the contents a package.json has in this model; reading a
\* directory or parsing anything else throws
JsonParse(c) ==
    CASE c = "pkg" -> [json |-> TRUE, packageManager |-> <<>>]
      [] c = "pkg:pnpm" ->
           [json |-> TRUE, packageManager |-> <<"pnpm", "@", "8">>]
      [] c = "pkg:yarn" ->
           [json |-> TRUE, packageManager |-> <<"yarn", "@", "1">>]
      [] c = "pkg:bun" ->
           [json |-> TRUE, packageManager |-> <<"bun", "@", "1">>]
      [] c = "pkg:npm" ->
           [json |-> TRUE, packageManager |-> <<"npm", "@", "10">>]
      [] c = "pkg:deno" ->
           [json |-> TRUE, packageManager |-> <<"deno", "@", "2">>]
      [] OTHER -> [json |-> FALSE, packageManager |-> <<>>]

\* the lock files detectPackageManager looks for, in its order
LockCandidates ==
    << [check |-> BUN_LOCKB, pm |-> "bun"],
       [check |-> PNPM_LOCK, pm |-> "pnpm"],
       [check |-> YARN_LOCK, pm |-> "yarn"],
       [check |-> PACKAGE_LOCK, pm |-> "npm"] >>

\* the first step of detectPackageManager: the packageManager field of a
\* manifest that can be read and parsed
ByManifest(f, dir, avail) ==
    LET path == Append(dir, PACKAGE_JSON)
    IN  IF pathExists(f, path) /\ JsonParse(f[path]).json
           /\ JsonParse(f[path]).packageManager # <<>>
        THEN LET name == ManagerName(JsonParse(f[path]).packageManager)
             IN  [pm |-> pmCommandFor(name, f, dir, avail),
                  probes |-> <<ProbedFor(name)>>]
        ELSE [pm |-> NoPm, probes |-> <<>>]

RECURSIVE ByLockfile(_, _, _, _, _)
\* the loop over the lock files, from candidate i on
ByLockfile(f, dir, avail, i, probes) ==
    IF i > Len(LockCandidates)
    THEN [pm |-> pmCommandFor("npm", f, dir, avail),
          probes |-> Append(probes, "npm")]
    ELSE LET c == LockCandidates[i]
         IN  IF pathExists(f, Append(dir, c.check))
             THEN LET cand == pmCommandFor(c.pm, f, dir, avail)
                  IN  IF cand # NoPm
                      THEN [pm |-> cand, probes |-> Append(probes, c.pm)]
                      ELSE ByLockfile(f, dir, avail, i + 1,
                                      Append(probes, c.pm))
             ELSE ByLockfile(f, dir, avail, i + 1, probes)

\* the manager chosen and the executables probed on the way, in order
detectPackageManager(f, dir, avail) ==
    LET first == ByManifest(f, dir, avail)
    IN  IF first.pm # NoPm THEN first
        ELSE ByLockfile(f, dir, avail, 1, first.probes)

LockOf(cmd) ==
    CASE cmd = "bun" -> BUN_LOCKB
      [] cmd = "pnpm" -> PNPM_LOCK
      [] cmd = "yarn" -> YARN_LOCK
      [] OTHER -> PACKAGE_LOCK

Frozen(p) == p.args \in {<<"ci">>, <<"install", "--frozen-lockfile">>}

\* an install that succeeds fills node_modules and, unless it ran in its
\* frozen mode, may write the manager's lock file
Install(f, d, p, writesLock) ==
    LET mods == [q \in {d \o <<NODE_MODULES, <<"dep">>>>} |-> "installed"]
        lock == [q \in {Append(d, LockOf(p.cmd))} |-> "lock:written"]
    IN  IF writesLock /\ ~Frozen(p) THEN WriteAll(WriteAll(f, mods), lock)
        ELSE WriteAll(f, mods)

---------------------------------------------------------------------------
(* The inputs: the directory gitdup is called in, its surroundings and    *)
(* its options                                                            *)

W == <<"w">>
PROJ == <<"proj">>
A_TXT == <<"a", ".", "txt">>
B_TXT == <<"b", ".", "txt">>
U_TXT == <<"u", ".", "txt">>
ENV == <<".", "env">>
M_JS == <<"m", ".", "js">>
PKG == <<"pkg">>

\* a function from the pairs <<argument, value>> of a set
FnOf(S) == [p \in {x[1] : x \in S} |-> (CHOOSE x \in S : x[1] = p)[2]]

Cwds == {<<W, PROJ>>, <<W, NODE_MODULES, PROJ>>}

NoDest == [given |-> FALSE, abs |-> FALSE, segs |-> <<>>]
RelDest(segs) == [given |-> TRUE, abs |-> FALSE, segs |-> segs]
AbsDest(segs) == [given |-> TRUE, abs |-> TRUE, segs |-> segs]

DestFresh == RelDest(<<DOTDOT, <<"proj", "-x">>>>)
DestEmpty == RelDest(<<DOTDOT, <<"empty">>>>)
DestFull == RelDest(<<DOTDOT, <<"full">>>>)
DestFile == RelDest(<<DOTDOT, <<"file">>>>)
DestSame == RelDest(<< <<".">> >>)
DestInside == RelDest(<< <<"sub">>, <<"dup">> >>)
DestInsideDots == RelDest(<< <<".", ".", "cache">> >>)
DestAbs == AbsDest(<<W, <<"abs">>>>)

DestOpts == {NoDest, DestFresh, DestEmpty, DestFull, DestFile, DestSame,
             DestInside, DestInsideDots, DestAbs}

\* the destinations that end the run in its checks
DeadEnds == {DestFull, DestFile, DestSame, DestInside, DestInsideDots}

NmKinds == {"none", "ignored", "tracked"}
\* package.json: absent, present and untracked, present and tracked, or
\* tracked but deleted from the working directory
PjKinds == {"none", "untracked", "tracked", "deleted"}
OtherKinds == {"same", "changed", "dropped", "addsU", "addsEnv", "addsNm"}

\* how many of the resolver's candidates exist: the first k, or all of them
Occupancies == (0..MaxOccupied) \cup {MaxAttempts}

\* the files of the source directory, relative to it
SourceFiles(isRepo, nm, pj, lock) ==
    (IF isRepo THEN {<< <<GIT, HEAD>>, "ref: refs/heads/main" >>,
                     << <<GIT, INDEX>>, "index:stale" >>}
     ELSE {})
    \cup {<< <<A_TXT>>, "modified" >>, << <<U_TXT>>, "local" >>,
          << <<ENV>>, "secret" >>}
    \cup (CASE nm = "ignored" ->
                {<< <<NODE_MODULES, M_JS>>, "module" >>,
                 << <<PKG, NODE_MODULES, M_JS>>, "module" >>}
            [] nm = "tracked" -> {<< <<NODE_MODULES, M_JS>>, "modified" >>}
            [] OTHER -> {})
    \cup (IF pj \in {"untracked", "tracked"}
          THEN {<< <<PACKAGE_JSON>>, "pkg" >>} ELSE {})
    \cup (IF lock THEN {<< <<PACKAGE_LOCK>>, "lock" >>} ELSE {})

\* the tree of the commit HEAD points to
HeadTree(nm, pj) ==
    FnOf({<< <<A_TXT>>, "committed" >>}
         \cup (IF nm = "tracked"
               THEN {<< <<NODE_MODULES, M_JS>>, "committed" >>} ELSE {})
         \cup (IF pj \in {"tracked", "deleted"}
               THEN {<< <<PACKAGE_JSON>>, "pkg" >>} ELSE {}))

\* the tree of the commit the requested branch or pull request points to
OtherTree(h, kind) ==
    CASE kind = "changed" ->
           [p \in DOMAIN h |-> IF p = <<A_TXT>> THEN "other" ELSE h[p]]
      [] kind = "dropped" -> FnOf({<< <<B_TXT>>, "other" >>})
      [] kind = "addsU" ->
           [p \in DOMAIN h \cup {<<U_TXT>>} |->
               IF p = <<U_TXT>> THEN "other" ELSE h[p]]
      [] kind = "addsEnv" ->
           [p \in DOMAIN h \cup {<<ENV>>} |->
               IF p = <<ENV>> THEN "other" ELSE h[p]]
      [] kind = "addsNm" ->
           [p \in DOMAIN h \cup {<<NODE_MODULES, M_JS>>} |->
               IF p = <<NODE_MODULES, M_JS>> THEN "other" ELSE h[p]]
      [] OTHER -> h

IgnoredPaths == {<<ENV>>, <<NODE_MODULES, M_JS>>, <<PKG, NODE_MODULES, M_JS>>}

\* the file system around a source directory c
BuildFs(c, isRepo, nm, pj, lock, occ, outer) ==
    LET src == {<<c \o x[1], x[2]>> : x \in SourceFiles(isRepo, nm, pj, lock)}
        par == Dirname(c)
        sib == {<<Append(par, <<"empty">>), DIR>>,
                <<par \o << <<"full">>, <<"x">> >>, "kept">>,
                <<Append(par, <<"file">>), "kept">>}
        dup == {<<Candidate(c, i), DIR>> : i \in 0..(occ - 1)}
        up == IF outer THEN {<< <<W, GIT, HEAD>>, "ref: refs/heads/main" >>}
              ELSE {}
    IN  WriteAll(<<>> :> DIR, FnOf(src \cup sib \cup dup \cup up))

Checkouts ==
    {[branch |-> "", hasPr |-> FALSE, pr |-> 0, remote |-> ""],
     [branch |-> "feature", hasPr |-> FALSE, pr |-> 0, remote |-> ""],
     [branch |-> "feature", hasPr |-> TRUE, pr |-> 1, remote |-> ""]}
    \cup [branch : {""}, hasPr : {TRUE}, pr : 1..MaxPr,
          remote : {"", "upstream"}]

NoChild == [cmd |-> "", args |-> <<>>, cwd |-> <<>>]
NoResult == [source |-> <<>>, dest |-> <<>>, checkedOut |-> ""]
Pending == [state |-> "pending", error |-> "", message |-> "",
            result |-> NoResult]

\* the combinations of inputs the model starts from: every combination of
\* source contents and options for a fresh destination beside the source,
\* and a choice of them for the other destinations and for a source that
\* lies below a directory named node_modules
Admissible(c, isRepo, nm, pj, lock, occ, outer, d, co, other, clean, install) ==
    /\ outer => c # <<W, PROJ>> /\ isRepo
    /\ ~isRepo => /\ nm = "none" /\ pj = "none" /\ occ = 0
                  /\ co.branch = "" /\ ~co.hasPr /\ ~clean
    /\ lock => pj \in {"untracked", "tracked"}
    /\ ~install => pj \in {"untracked", "tracked"}
    /\ pj = "deleted" => c = <<W, PROJ>> /\ d = DestFresh /\ nm = "none"
    /\ other # "same" => co.branch # "" \/ co.hasPr
    /\ co.hasPr => other \in {"same", "changed"}
    /\ occ # 0 => ~d.given
    /\ ~(c = <<W, PROJ>> /\ d = DestFresh) =>
          /\ other = "same" /\ ~co.hasPr
          /\ c = <<W, PROJ>> => co.branch = "" /\ ~clean
    /\ c # <<W, PROJ>> =>
          /\ nm = "none"
          /\ d \in {NoDest, DestFresh, DestFull, DestInsideDots}
    /\ d \in DeadEnds => ~lock /\ nm = "none"
    /\ occ = MaxAttempts => c = <<W, PROJ>> /\ nm = "none" /\ pj = "none"

\* the clock values new Date() may return
Dates == [year : {2025}, month : {11}, day : {3}, hour : {18},
          minute : 0..MaxClock, second : 0..MaxClock, ms : {0}]

\* the clock when gitdup is called
Started == [year |-> 2025, month |-> 11, day |-> 3, hour |-> 18,
            minute |-> 0, second |-> 0, ms |-> 0]

\* a < b for two clock values
Earlier(a, b) ==
    LET ta == <<a.year, a.month, a.day, a.hour, a.minute, a.second, a.ms>>
        tb == <<b.year, b.month, b.day, b.hour, b.minute, b.second, b.ms>>
    IN  \E i \in 1..7 : ta[i] < tb[i] /\ \A j \in 1..(i - 1) : ta[j] = tb[j]

\* the inputs that are also run with the verbose option
Loud(c, isRepo, nm, occ, d, other) ==
    /\ c = <<W, PROJ>>
    /\ isRepo
    /\ nm = "none"
    /\ occ = 0
    /\ d = DestFresh
    /\ other = "same"

Init ==
    \E c \in Cwds, isRepo \in BOOLEAN, nm \in NmKinds, pj \in PjKinds,
       lock \in BOOLEAN, occ \in Occupancies, outer \in BOOLEAN,
       d \in DestOpts,
       co \in Checkouts, other \in OtherKinds, clean \in BOOLEAN,
       install \in BOOLEAN, verbose \in BOOLEAN :
        /\ Admissible(c, isRepo, nm, pj, lock, occ, outer, d, co, other,
                      clean, install)
        /\ verbose => Loud(c, isRepo, nm, occ, d, other)
        /\ fs = BuildFs(c, isRepo, nm, pj, lock, occ, outer)
        /\ fs0 = fs
        /\ cwd = c
        /\ opts = [dest |-> d, branch |-> co.branch, hasPr |-> co.hasPr,
                   pr |-> co.pr, remote |-> co.remote, clean |-> clean,
                   install |-> install, verbose |-> verbose]
        /\ repo = [head |-> HeadTree(nm, pj),
                   other |-> OtherTree(HeadTree(nm, pj), other),
                   ignored |-> IgnoredPaths \ DOMAIN HeadTree(nm, pj)]
        /\ pc = "start"
        /\ dest = <<>>
        /\ probe = 0
        /\ isNode = FALSE
        /\ pm = NoPm
        /\ child = NoChild
        /\ cmds = <<>>
        /\ events = <<>>
        /\ wt = "head"
        /\ refs = {}
        /\ checkedOut = ""
        /\ outcome = Pending
        /\ clock = Started
        /\ tools = Unprobed
        /\ stamped = {}
        /\ trace = <<>>

---------------------------------------------------------------------------
(* gitdup, from one await to the next *)

const == <<cwd, opts, repo, fs0, clock, tools, stamped>>

Tree(w) == IF w = "head" THEN repo.head ELSE repo.other

\* the repositories whose trees the model knows: the source and its copy
Modelled(root) == root = dest \/ root = cwd

\* what the git commands of gitdup, run in dest, do to the file system
ResetEffect(f) ==
    IF Modelled(GitRoot(f, dest))
    THEN GitResetHard(f, GitRoot(f, dest), Tree(wt)) ELSE f

CleanEffect(f) ==
    IF Modelled(GitRoot(f, dest))
    THEN GitClean(f, GitRoot(f, dest), dest, Tree(wt), repo.ignored) ELSE f

CheckoutRefused(f) ==
    /\ Modelled(GitRoot(f, dest))
    /\ CheckoutBlocked(f, GitRoot(f, dest), Tree(wt), repo.other, repo.ignored)

CheckoutEffect(f) ==
    IF Modelled(GitRoot(f, dest))
    THEN GitCheckout(f, GitRoot(f, dest), Tree(wt), repo.other) ELSE f

\* spawn(cmd, args, {cwd: dest})
Proc(cmd, args) == [cmd |-> cmd, args |-> args, cwd |-> dest]

Rejected(kind, msg) ==
    [state |-> "rejected", error |-> kind, message |-> msg,
     result |-> NoResult]

Resolved(co) ==
    [state |-> "resolved", error |-> "", message |-> "",
     result |-> [source |-> cwd, dest |-> dest, checkedOut |-> co]]

\* one entry of the trace: the process cmds[id] is spawned, closes with an
\* exit code after writing out, or cannot be started ('error'), or the event
\* events[id] is emitted
Happened(what, id, code, out) ==
    [what |-> what, id |-> id, code |-> code, out |-> out]

\* the 'close' of the process being awaited, which settles the promise of run
Closed(code, out) ==
    IF child = NoChild THEN <<>>
    ELSE <<Happened("close", Len(cmds), code, out)>>

\* the events ev adds to events, and the processes cm adds to cmds
Emits(ev) ==
    [i \in 1..(Len(ev) - Len(events)) |->
        Happened("emit", Len(events) + i, 0, <<>>)]

Spawns(cm) ==
    [i \in 1..(Len(cm) - Len(cmds)) |->
        Happened("spawn", Len(cmds) + i, 0, <<>>)]

Sequel_noAwait(closed, emitted, spawned) == emitted \o spawned \o closed

\* what follows an await in gitdup: the awaited process has closed, then
\* events are emitted, then the next process is spawned
Sequel(closed, emitted, spawned) == closed \o emitted \o spawned

\* a throw: the promise rejects and nothing else happens
Throw(kind, msg) ==
    /\ pc' = "rejected"
    /\ outcome' = Rejected(kind, msg)
    /\ child' = NoChild
    /\ UNCHANGED <<events, cmds, checkedOut>>

\* spawn cannot start the executable: the child emits 'error', which neither
\* run nor runCapture listens to, so the error leaves the event loop as an
\* uncaught exception, 'close' is never emitted and the promise of gitdup is
\* never settled
Crash ==
    /\ pc' = "crashed"
    /\ child' = NoChild
    /\ trace' = Append(trace, Happened("error", Len(cmds), 0, <<>>))
    /\ UNCHANGED <<events, cmds, checkedOut, outcome>>

RECURSIVE JoinArgs(_)
\* args.join(' ')
JoinArgs(args) ==
    IF args = <<>> THEN ""
    ELSE IF Len(args) = 1 THEN args[1]
    ELSE args[1] \o " " \o JoinArgs(Tail(args))

CommandFailed_bare(p, out) == "Command failed: " \o p.cmd

\* `Command failed: ${cmd} ${args.join(' ')}\n${err || out}`
CommandFailed(p, out) ==
    "Command failed: " \o p.cmd \o " " \o JoinArgs(p.args) \o "\n" \o out

\* err || out when the child closes: what it wrote, which run collects only
\* when it is not verbose
Captured == IF opts.verbose THEN {""} ELSE {"", "fatal: failed"}

\* the child closes with a code other than 0 and run rejects
Fail ==
    \E out \in Captured :
        /\ Throw("CommandFailure", CommandFailed(child, out))
        /\ trace' = trace \o Closed(1, IF out = "" THEN <<>> ELSE <<out>>)

\* the next await point, with what was emitted and spawned on the way
Resume(c) ==
    /\ pc' = c.pc
    /\ events' = c.events
    /\ cmds' = c.cmds
    /\ child' = c.child
    /\ checkedOut' = c.checkedOut
    /\ outcome' = c.outcome

\* the same, after the awaited process, if there is one, closed with an exit
\* code
After(code, out, c) ==
    /\ Resume(c)
    /\ trace' = trace \o Sequel(Closed(code, out), Emits(c.events),
                                Spawns(c.cmds))

\* the same when the awaited process, if there is one, exits with code 0
Goto(c) == After(0, <<>>, c)

Await_retry(at, ev, cm, cmd, args, co) ==
    [pc |-> at, events |-> ev,
     cmds |-> cm \o <<Proc(cmd, args), Proc(cmd, args)>>,
     child |-> Proc(cmd, args), checkedOut |-> co, outcome |-> Pending]

\* await run(cmd, args, dest): spawn and wait at the await point at
Await(at, ev, cm, cmd, args, co) ==
    [pc |-> at, events |-> ev, cmds |-> Append(cm, Proc(cmd, args)),
     child |-> Proc(cmd, args), checkedOut |-> co, outcome |-> Pending]

Finish_doneFirst(ev, cm, co) ==
    [pc |-> "resolved", events |-> <<[type |-> "done", dest |-> dest]>> \o ev,
     cmds |-> cm, child |-> NoChild, checkedOut |-> co,
     outcome |-> Resolved(co)]

\* the 'done' event and the return
Finish(ev, cm, co) ==
    [pc |-> "resolved", events |-> Append(ev, [type |-> "done", dest |-> dest]),
     cmds |-> cm, child |-> NoChild, checkedOut |-> co,
     outcome |-> Resolved(co)]

\* `pr-${options.pr}`
LocalRef(n) == "pr-" \o ToString(n)

\* `pull/${options.pr}/head:${localRef}`
PrRefspec(n) == "pull/" \o ToString(n) \o "/head:" \o LocalRef(n)

RemoteOf_origin(o) == "origin"

\* options.remote || 'origin'
RemoteOf(o) == IF o.remote # "" THEN o.remote ELSE "origin"

AfterVcs_recheck(ev, cm, co) ==
    IF isNodeProject(fs, dest)
    THEN IF ~opts.install
         THEN Finish(Append(ev, [type |-> "node:install:skip", dest |-> dest,
                                 reason |-> "install disabled by option"]),
                     cm, co)
         ELSE [pc |-> "detect", events |-> ev, cmds |-> cm, child |-> NoChild,
               checkedOut |-> co, outcome |-> Pending]
    ELSE Finish(ev, cm, co)

\* the install step
AfterVcs(ev, cm, co) ==
    IF isNode
    THEN IF ~opts.install
         THEN Finish(Append(ev, [type |-> "node:install:skip", dest |-> dest,
                                 reason |-> "install disabled by option"]),
                     cm, co)
         ELSE [pc |-> "detect", events |-> ev, cmds |-> cm, child |-> NoChild,
               checkedOut |-> co, outcome |-> Pending]
    ELSE Finish(ev, cm, co)

AfterClean_prFirst(ev, cm) ==
    IF opts.hasPr
    THEN Await("fetchPr",
               Append(ev, [type |-> "git:pr:start", dest |-> dest,
                           pr |-> opts.pr, remote |-> RemoteOf(opts)]),
               cm, "git", <<"fetch", RemoteOf(opts), PrRefspec(opts.pr)>>, "")
    ELSE IF opts.branch # ""
    THEN Await("remote",
               Append(ev, [type |-> "git:branch:start", dest |-> dest,
                           branch |-> opts.branch]),
               cm, "git", <<"remote">>, "")
    ELSE AfterVcs(ev, cm, "")

\* if (options.branch) ... else if (typeof options.pr === 'number') ...
AfterClean(ev, cm) ==
    IF opts.branch # ""
    THEN Await("remote",
               Append(ev, [type |-> "git:branch:start", dest |-> dest,
                           branch |-> opts.branch]),
               cm, "git", <<"remote">>, "")
    ELSE IF opts.hasPr
    THEN Await("fetchPr",
               Append(ev, [type |-> "git:pr:start", dest |-> dest,
                           pr |-> opts.pr, remote |-> RemoteOf(opts)]),
               cm, "git", <<"fetch", RemoteOf(opts), PrRefspec(opts.pr)>>, "")
    ELSE AfterVcs(ev, cm, "")

\* if (options.clean) ...
AfterReset(ev, cm) ==
    IF opts.clean
    THEN Await("clean", Append(ev, [type |-> "git:clean:start", dest |-> dest]),
               cm, "git", <<"clean", "-fd">>, "")
    ELSE AfterClean(ev, cm)

\* await ensureGitRepo(cwd)
EnsureGitRepo ==
    /\ pc = "start"
    /\ \/ /\ ensureGitRepo(fs, cwd)
          /\ pc' = "dest"
          /\ UNCHANGED <<outcome, child, events, cmds, checkedOut>>
       \/ /\ ~ensureGitRepo(fs, cwd)
          /\ Throw("NotARepository", "Not a git repository")
    /\ UNCHANGED <<fs, dest, probe, isNode, pm, wt, refs, trace, const>>

\* path.resolve(options.dest)
ResolveDest ==
    /\ pc = "dest"
    /\ opts.dest.given
    /\ dest' = Resolve(cwd, opts.dest)
    /\ pc' = "check"
    /\ UNCHANGED <<fs, probe, isNode, pm, child, cmds, events, wt, refs,
                   checkedOut, outcome, trace, const>>

\* defaultDest: the candidate <base>-dup
DefaultDestFirst ==
    /\ pc = "dest"
    /\ ~opts.dest.given
    /\ IF ~pathExists(fs, Candidate(cwd, 0))
       THEN dest' = Candidate(cwd, 0) /\ pc' = "check" /\ UNCHANGED probe
       ELSE probe' = 1 /\ pc' = "probe" /\ UNCHANGED dest
    /\ UNCHANGED <<fs, isNode, pm, child, cmds, events, wt, refs,
                   checkedOut, outcome, trace, const>>

\* defaultDest: one turn of while (i < 1000)
DefaultDestLoop ==
    /\ pc = "probe"
    /\ probe < MaxAttempts
    /\ IF ~pathExists(fs, Candidate(cwd, probe))
       THEN dest' = Candidate(cwd, probe) /\ pc' = "check" /\ UNCHANGED probe
       ELSE probe' = probe + 1 /\ UNCHANGED <<dest, pc>>
    /\ UNCHANGED <<fs, isNode, pm, child, cmds, events, wt, refs,
                   checkedOut, outcome, trace, const>>

\* defaultDest: the name with the time stamp, after the loop
DefaultDestFallback ==
    /\ pc = "probe"
    /\ ~(probe < MaxAttempts)
    /\ \E now \in Dates :
          /\ ~Earlier(now, clock)
          /\ clock' = now
          /\ dest' = FallbackName(cwd, now)
          /\ stamped' = stamped \cup {[at |-> now, dest |-> FallbackName(cwd, now)]}
    /\ pc' = "check"
    /\ UNCHANGED <<fs, probe, isNode, pm, child, cmds, events, wt, refs,
                   checkedOut, outcome, cwd, opts, repo, fs0, tools, trace>>

\* the safety checks and the destination rules, then the start of the copy
CheckDest ==
    /\ pc = "check"
    /\ \/ /\ dest = cwd
          /\ Throw("InvalidDestination", "same as the current directory")
          /\ UNCHANGED <<fs, isNode, trace>>
       \/ /\ dest # cwd
          /\ isSubPath(cwd, dest)
          /\ Throw("InvalidDestination", "inside the current directory")
          /\ UNCHANGED <<fs, isNode, trace>>
       \/ /\ dest # cwd
          /\ ~isSubPath(cwd, dest)
          /\ pathExists(fs, dest)
          /\ fs[dest] # DIR
          /\ Throw("InvalidDestination", "exists and is not a directory")
          /\ UNCHANGED <<fs, isNode, trace>>
       \/ /\ dest # cwd
          /\ ~isSubPath(cwd, dest)
          /\ pathExists(fs, dest)
          /\ fs[dest] = DIR
          /\ Readdir(fs, dest) # {}
          /\ Throw("InvalidDestination", "must be empty")
          /\ UNCHANGED <<fs, isNode, trace>>
       \/ /\ dest # cwd
          /\ ~isSubPath(cwd, dest)
          /\ pathExists(fs, dest) => fs[dest] = DIR /\ Readdir(fs, dest) = {}
          /\ fs' = IF pathExists(fs, dest) THEN fs ELSE Mkdir(fs, dest)
          /\ isNode' = isNodeProject(fs', cwd)
          /\ pc' = "cp"
          /\ events' =
               (IF isNode'
                THEN <<[type |-> "copy:skip-node_modules", source |-> cwd]>>
                ELSE <<>>)
               \o <<[type |-> "copy:start", source |-> cwd, dest |-> dest]>>
          /\ trace' = trace \o Emits(events')
          /\ UNCHANGED <<child, cmds, checkedOut, outcome>>
    /\ UNCHANGED <<dest, probe, pm, wt, refs, const>>

\* await fs.cp(cwd, dest, ...)
CopyDone ==
    /\ pc = "cp"
    /\ \/ /\ ~CpIntoSelf(cwd, dest) \/ ~CopyFilter(cwd, isNode, cwd)
          /\ fs' = Cp(fs, cwd, dest, isNode)
          /\ Goto(Await("reset",
                        events \o <<[type |-> "copy:done", dest |-> dest],
                                    [type |-> "git:reset:start",
                                     dest |-> dest]>>,
                        cmds, "git", <<"reset", "--hard">>, ""))
       \/ /\ Throw("CopyFailure", "fs.cp failed")
          /\ UNCHANGED <<fs, trace>>
    /\ UNCHANGED <<dest, probe, isNode, pm, wt, refs, const>>

\* await run('git', ['reset', '--hard'], dest)
ResetDone ==
    /\ pc = "reset"
    /\ \/ /\ GitWorks(fs, dest)
          /\ fs' = ResetEffect(fs)
          /\ Goto(AfterReset(Append(events, [type |-> "git:reset:done",
                                             dest |-> dest]), cmds))
       \/ /\ Fail
          /\ UNCHANGED fs
       \/ /\ Crash
          /\ UNCHANGED fs
    /\ UNCHANGED <<dest, probe, isNode, pm, wt, refs, const>>

\* await run('git', ['clean', '-fd'], dest)
CleanDone ==
    /\ pc = "clean"
    /\ \/ /\ GitWorks(fs, dest)
          /\ fs' = CleanEffect(fs)
          /\ Goto(AfterClean(Append(events, [type |-> "git:clean:done",
                                             dest |-> dest]), cmds))
       \/ /\ Fail
          /\ UNCHANGED fs
       \/ /\ Crash
          /\ UNCHANGED fs
    /\ UNCHANGED <<dest, probe, isNode, pm, wt, refs, const>>

CheckoutBranch(cm) ==
    Await("checkoutBranch", events, cm, "git", <<"checkout", opts.branch>>, "")

\* what `git remote` may write: one line for every remote
RemoteOutputs ==
    {<<>>, <<"origin", "\n">>, <<"origin", "\n", "upstream", "\n">>}

\* String.prototype.trim, on the tokens of a text
Trim(s) ==
    LET ink == {i \in 1..Len(s) : s[i] \notin {"\n", " "}}
    IN  IF ink = {} THEN <<>>
        ELSE SubSeq(s, CHOOSE i \in ink : \A j \in ink : i <= j,
                       CHOOSE i \in ink : \A j \in ink : j <= i)

RECURSIVE Split(_)
\* split('\n'): the lines of a text, the empty ones included
Split(s) ==
    LET nl == {i \in 1..Len(s) : s[i] = "\n"}
    IN  IF nl = {} THEN <<s>>
        ELSE LET i == CHOOSE k \in nl : \A j \in nl : k <= j
             IN  <<SubSeq(s, 1, i - 1)>> \o Split(SubSeq(s, i + 1, Len(s)))

\* out.trim().split('\n').filter(Boolean)
Remotes(out) == SelectSeq(Split(Trim(out)), LAMBDA l : l # <<>>)

\* await runCapture('git', ['remote'], dest), inside the try
RemoteDone ==
    /\ pc = "remote"
    /\ \/ \* it lists the remotes: fetch them all if there is one
          \E out \in RemoteOutputs :
             /\ GitWorks(fs, dest)
             /\ After(0, out,
                      IF Len(Remotes(out)) > 0
                      THEN Await("fetchAll", events, cmds, "git",
                                 <<"fetch", "--all", "--prune">>, "")
                      ELSE CheckoutBranch(cmds))
       \/ \* it fails and the catch swallows that
          After(1, <<>>, CheckoutBranch(cmds))
       \/ Crash
    /\ UNCHANGED <<fs, dest, probe, isNode, pm, wt, refs, const>>

\* await run('git', ['fetch', '--all', '--prune'], dest), inside the try:
\* whether it succeeds or fails, the checkout is next
FetchAllDone ==
    /\ pc = "fetchAll"
    /\ \/ Goto(CheckoutBranch(cmds))
       \/ After(1, <<>>, CheckoutBranch(cmds))
       \/ Crash
    /\ UNCHANGED <<fs, dest, probe, isNode, pm, wt, refs, const>>

\* await run('git', ['checkout', options.branch], dest)
CheckoutBranchDone ==
    /\ pc = "checkoutBranch"
    /\ \/ /\ GitWorks(fs, dest)
          /\ ~CheckoutRefused(fs)
          /\ fs' = CheckoutEffect(fs)
          /\ wt' = "other"
          /\ Goto(AfterVcs(Append(events, [type |-> "git:branch:done",
                                           dest |-> dest,
                                           branch |-> opts.branch]),
                           cmds, opts.branch))
       \/ /\ Fail
          /\ UNCHANGED <<fs, wt>>
       \/ /\ Crash
          /\ UNCHANGED <<fs, wt>>
    /\ UNCHANGED <<dest, probe, isNode, pm, refs, const>>

\* await run('git', ['fetch', remote, `pull/${pr}/head:${localRef}`], dest)
FetchPrDone ==
    /\ pc = "fetchPr"
    /\ \/ /\ GitWorks(fs, dest)
          /\ refs' = refs \cup {LocalRef(opts.pr)}
          /\ Goto(Await("checkoutPr", events, cmds, "git",
                        <<"checkout", LocalRef(opts.pr)>>, ""))
       \/ /\ Fail
          /\ UNCHANGED refs
       \/ /\ Crash
          /\ UNCHANGED refs
    /\ UNCHANGED <<fs, dest, probe, isNode, pm, wt, const>>

\* await run('git', ['checkout', localRef], dest)
CheckoutPrDone ==
    /\ pc = "checkoutPr"
    /\ \/ /\ GitWorks(fs, dest)
          /\ LocalRef(opts.pr) \in refs
          /\ ~CheckoutRefused(fs)
          /\ fs' = CheckoutEffect(fs)
          /\ wt' = "other"
          /\ Goto(AfterVcs(Append(events, [type |-> "git:pr:done",
                                           dest |-> dest, pr |-> opts.pr,
                                           remote |-> RemoteOf(opts)]),
                           cmds, LocalRef(opts.pr)))
       \/ /\ Fail
          /\ UNCHANGED <<fs, wt>>
       \/ /\ Crash
          /\ UNCHANGED <<fs, wt>>
    /\ UNCHANGED <<dest, probe, isNode, pm, refs, const>>

\* the `<cmd> --version` processes of the probes, in order
Probes(names) ==
    [i \in 1..Len(names) |-> Proc(names[i], <<"--version">>)]

\* the machines the runs of gitdup are followed on: every executable behaves
\* the same way
Machines == {[m \in PackageManagers |-> st] : st \in Status}

\* the probes that are spawned: all of them, or those up to the first
\* executable that cannot be started
Spawned(names, t) ==
    LET bad == {i \in 1..Len(names) : t[names[i]] = "missing"}
    IN  IF bad = {} THEN names
        ELSE SubSeq(names, 1, CHOOSE i \in bad : \A j \in bad : i <= j)

\* the probes one after the other: has awaits each of them, which closes
\* with code 0 or another code, or cannot be started
ProbeRuns(names, t) ==
    [k \in 1..(2 * Len(names)) |->
        LET i == (k + 1) \div 2
        IN  IF k % 2 = 1 THEN Happened("spawn", Len(cmds) + i, 0, <<>>)
            ELSE IF t[names[i]] = "missing"
            THEN Happened("error", Len(cmds) + i, 0, <<>>)
            ELSE Happened("close", Len(cmds) + i,
                          IF t[names[i]] = "ok" THEN 0 ELSE 1, <<>>)]

\* await detectPackageManager(dest) and what follows it, on the machine t
Detect(t) ==
    LET avail == {m \in PackageManagers : t[m] = "ok"}
        found == detectPackageManager(fs, dest, avail)
        tried == Spawned(found.probes, t)
        cm == cmds \o Probes(tried)
        runs == ProbeRuns(tried, t)
        skip == Finish(Append(events,
                           [type |-> "node:install:skip", dest |-> dest,
                            reason |-> "no package manager available"]),
                       cm, checkedOut)
        start == Await("install",
                       Append(events, [type |-> "node:install:start",
                                       dest |-> dest,
                                       manager |-> found.pm.cmd]),
                       cm, found.pm.cmd, found.pm.args, checkedOut)
    IN  /\ tools' = t
        /\ IF tried # <<>> /\ t[tried[Len(tried)]] = "missing"
           THEN /\ pc' = "crashed"
                /\ cmds' = cm
                /\ trace' = trace \o runs
                /\ UNCHANGED <<pm, child, events, checkedOut, outcome>>
           ELSE IF found.pm = NoPm
           THEN /\ pm' = NoPm
                /\ Resume(skip)
                /\ trace' = trace \o Sequel(runs, Emits(skip.events), <<>>)
           ELSE /\ pm' = found.pm
                /\ Resume(start)
                /\ trace' = trace \o
                       Sequel(runs, Emits(start.events),
                              <<Happened("spawn", Len(start.cmds), 0, <<>>)>>)

\* await detectPackageManager(dest)
DetectDone ==
    /\ pc = "detect"
    /\ \E t \in Machines : Detect(t)
    /\ UNCHANGED <<fs, dest, probe, isNode, wt, refs, cwd, opts, repo, fs0,
                   clock, stamped>>

\* await run(pm.cmd, pm.args, dest)
InstallDone ==
    /\ pc = "install"
    /\ \/ /\ \E writesLock \in BOOLEAN :
                fs' = Install(fs, dest, pm, writesLock)
          /\ Goto(Finish(Append(events, [type |-> "node:install:done",
                                         dest |-> dest, manager |-> pm.cmd]),
                         cmds, checkedOut))
       \/ /\ Fail
          /\ UNCHANGED fs
       \/ /\ Crash
          /\ UNCHANGED fs
    /\ UNCHANGED <<dest, probe, isNode, pm, wt, refs, const>>

Next ==
    \/ EnsureGitRepo
    \/ ResolveDest
    \/ DefaultDestFirst
    \/ DefaultDestLoop
    \/ DefaultDestFallback
    \/ CheckDest
    \/ CopyDone
    \/ ResetDone
    \/ CleanDone
    \/ RemoteDone
    \/ FetchAllDone
    \/ CheckoutBranchDone
    \/ FetchPrDone
    \/ CheckoutPrDone
    \/ DetectDone
    \/ InstallDone

Spec == Init /\ [][Next]_vars

---------------------------------------------------------------------------
(* defaultDest called again and again beside a source whose numbered     *)
(* candidates are all taken, while time passes                            *)

InitStamp ==
    /\ cwd = <<W, PROJ>>
    /\ fs = BuildFs(<<W, PROJ>>, TRUE, "none", "none", FALSE, MaxAttempts,
                    FALSE)
    /\ fs0 = fs
    /\ opts = [dest |-> NoDest, branch |-> "", hasPr |-> FALSE, pr |-> 0,
               remote |-> "", clean |-> FALSE, install |-> TRUE,
               verbose |-> FALSE]
    /\ repo = [head |-> HeadTree("none", "none"),
               other |-> HeadTree("none", "none"),
               ignored |-> IgnoredPaths]
    /\ pc = "probe"
    /\ probe = MaxAttempts
    /\ dest = <<>>
    /\ isNode = FALSE
    /\ pm = NoPm
    /\ child = NoChild
    /\ cmds = <<>>
    /\ events = <<>>
    /\ wt = "head"
    /\ refs = {}
    /\ checkedOut = ""
    /\ outcome = Pending
    /\ clock \in Dates
    /\ tools = Unprobed
    /\ stamped = {}
    /\ trace = <<>>

\* time passes
Tick ==
    /\ \E now \in Dates : Earlier(clock, now) /\ clock' = now
    /\ UNCHANGED <<fs, pc, dest, probe, isNode, pm, child, cmds, events, wt,
                   refs, checkedOut, outcome, cwd, opts, repo, fs0, tools,
                   stamped, trace>>

\* defaultDest after its loop: the name with the time stamp is returned and
\* nothing is created, so the next call finds the same candidates taken
DefaultDestStamp ==
    /\ pc = "probe"
    /\ ~(probe < MaxAttempts)
    /\ Cardinality(stamped) < MaxResolutions
    /\ stamped' = stamped \cup {[at |-> clock, dest |-> FallbackName(cwd, clock)]}
    /\ UNCHANGED <<fs, pc, dest, probe, isNode, pm, child, cmds, events, wt,
                   refs, checkedOut, outcome, cwd, opts, repo, fs0, clock,
                   tools, trace>>

NextStamp ==
    \/ Tick
    \/ DefaultDestStamp

SpecStamp == InitStamp /\ [][NextStamp]_vars

---------------------------------------------------------------------------
(* The install step of gitdup in a duplicate with any manifest and any   *)
(* lock files, on any machine                                             *)

\* the contents of the duplicate's package.json; "" when it has none
Manifests == {"", "{", "pkg", "pkg:bun", "pkg:pnpm", "pkg:yarn", "pkg:npm",
              "pkg:deno"}

LockFiles == {BUN_LOCKB, PNPM_LOCK, YARN_LOCK, PACKAGE_LOCK}

\* the files of the duplicate after the copy and the reset
Duplicate(d, manifest, locks) ==
    FnOf({<<d \o <<GIT, HEAD>>, "ref: refs/heads/main">>,
          <<d \o <<GIT, INDEX>>, "index:rebuilt">>,
          <<d \o <<A_TXT>>, "committed">>,
          <<d \o <<U_TXT>>, "local">>}
         \cup (IF manifest = "" THEN {}
               ELSE {<<d \o <<PACKAGE_JSON>>, manifest>>})
         \cup {<<Append(d, l), "lock">> : l \in locks})

\* gitdup at await detectPackageManager(dest), the reset done
InitDetect ==
    \E manifest \in Manifests, locks \in SUBSET LockFiles :
        /\ cwd = <<W, PROJ>>
        /\ dest = Candidate(cwd, 0)
        /\ fs0 = BuildFs(cwd, TRUE, "none", "untracked", FALSE, 0, FALSE)
        /\ fs = WriteAll(fs0, Duplicate(dest, manifest, locks))
        /\ opts = [dest |-> NoDest, branch |-> "", hasPr |-> FALSE, pr |-> 0,
                   remote |-> "", clean |-> FALSE, install |-> TRUE,
                   verbose |-> FALSE]
        /\ repo = [head |-> HeadTree("none", "untracked"),
                   other |-> HeadTree("none", "untracked"),
                   ignored |-> IgnoredPaths]
        /\ pc = "detect"
        /\ probe = 0
        /\ isNode = TRUE
        /\ pm = NoPm
        /\ child = NoChild
        /\ cmds = <<Proc("git", <<"reset", "--hard">>)>>
        /\ events = <<[type |-> "copy:skip-node_modules", source |-> cwd],
                      [type |-> "copy:start", source |-> cwd, dest |-> dest],
                      [type |-> "copy:done", dest |-> dest],
                      [type |-> "git:reset:start", dest |-> dest],
                      [type |-> "git:reset:done", dest |-> dest]>>
        /\ wt = "head"
        /\ refs = {}
        /\ checkedOut = ""
        /\ outcome = Pending
        /\ clock = Started
        /\ tools = Unprobed
        /\ stamped = {}
        /\ trace = <<Happened("emit", 1, 0, <<>>), Happened("emit", 2, 0, <<>>),
                     Happened("emit", 3, 0, <<>>), Happened("emit", 4, 0, <<>>),
                     Happened("spawn", 1, 0, <<>>), Happened("close", 1, 0, <<>>),
                     Happened("emit", 5, 0, <<>>)>>

\* await detectPackageManager(dest), on any machine
DetectOnAny ==
    /\ pc = "detect"
    /\ \E t \in [PackageManagers -> Status] : Detect(t)
    /\ UNCHANGED <<fs, dest, probe, isNode, wt, refs, cwd, opts, repo, fs0,
                   clock, stamped>>

NextDetect ==
    \/ DetectOnAny
    \/ InstallDone

SpecDetect == InitDetect /\ [][NextDetect]_vars

---------------------------------------------------------------------------
(* The claims *)

\* the destination the call names, resolved, or the one defaultDest chose
Target == IF opts.dest.given THEN Resolve(cwd, opts.dest) ELSE dest

RelTo(d, p) == SubSeq(p, Len(d) + 1, Len(p))

SourceIsRepo == Exists(fs0, Append(cwd, GIT))

\* the source is package-based: package.json at its root when gitdup is called
PackageBased == Exists(fs0, Append(cwd, PACKAGE_JSON))

Emitted(type) == \E i \in 1..Len(events) : events[i].type = type

\* C1: for a source that is a repository and a destination that does not
\* exist, a run that resolves leaves a destination that contains .git
C1_DestinationHasGitDir ==
    (SourceIsRepo /\ pc = "resolved" /\ ~Exists(fs0, dest))
        => Exists(fs, Append(dest, GIT))

\* C2 as stated: a destination that exists as a directory with entries makes
\* gitdup fail with InvalidDestination, the file system stays as it was and
\* no copy, git or install step is started
DestinationHasEntries ==
    /\ opts.dest.given
    /\ Exists(fs0, Target)
    /\ fs0[Target] = DIR
    /\ \E p \in DOMAIN fs0 : IsPrefix(Target, p) /\ p # Target

NothingStarted ==
    /\ fs = fs0
    /\ cmds = <<>>
    /\ events = <<>>
    /\ child = NoChild
    /\ pc \notin {"cp", "reset", "clean", "remote", "fetchAll",
                  "checkoutBranch", "fetchPr", "checkoutPr", "detect",
                  "install", "resolved", "crashed"}

C2_AsStated ==
    DestinationHasEntries =>
        /\ NothingStarted
        /\ pc = "rejected" => outcome.error = "InvalidDestination"

\* C2, amended: the same, for a source that is a repository
C2_NonEmptyDestinationRejected ==
    (SourceIsRepo /\ DestinationHasEntries) =>
        /\ NothingStarted
        /\ pc = "rejected" => outcome.error = "InvalidDestination"

C2_Witness ==
    /\ SourceIsRepo
    /\ DestinationHasEntries
    /\ Target # cwd
    /\ pc = "rejected"
    /\ outcome.message = "must be empty"

\* C3: a destination that is the source or lies inside it, by components,
\* makes gitdup (called in a repository) fail with InvalidDestination before
\* the destination is created or anything is copied; a sibling that shares a
\* name prefix with the source is not rejected as nested
C3_NestedDestinationRejected ==
    /\ (SourceIsRepo /\ opts.dest.given /\ IsPrefix(cwd, Target)) =>
          /\ fs = fs0
          /\ cmds = <<>>
          /\ events = <<>>
          /\ pc = "rejected" => outcome.error = "InvalidDestination"
    /\ (SourceIsRepo /\ opts.dest = DestFresh /\ pc = "rejected") =>
          outcome.error # "InvalidDestination"

\* C4 as stated: for a package-based source with a node_modules directory at
\* some depth, the destination of a run that resolved has no node_modules
\* directory
UnderNodeModules(rel) == \E i \in 1..Len(rel) : rel[i] = NODE_MODULES

HasNodeModules(f, d) == \E p \in Below(f, d) : UnderNodeModules(RelTo(d, p))

C4_AsStated ==
    (SourceIsRepo /\ PackageBased /\ HasNodeModules(fs0, cwd)
        /\ pc = "resolved") => ~HasNodeModules(fs, dest)

\* C4, amended: for a package-based source the copy carries no node_modules
\* directory over (the destination has none when the copy is done), and from
\* then on every file of the destination under a node_modules directory is a
\* file of the commit checked out there, with its committed content, or was
\* written by the install step
C4_NodeModulesNotCopied ==
    /\ (SourceIsRepo /\ PackageBased /\ pc = "reset") =>
          ~HasNodeModules(fs, dest)
    /\ (SourceIsRepo /\ PackageBased /\ Emitted("copy:done")) =>
          \A p \in Below(fs, dest) :
             (UnderNodeModules(RelTo(dest, p)) /\ fs[p] # DIR) =>
                \/ /\ RelTo(dest, p) \in DOMAIN Tree(wt)
                   /\ fs[p] = Tree(wt)[RelTo(dest, p)]
                \/ fs[p] = "installed"

C4_Witness ==
    /\ SourceIsRepo
    /\ PackageBased
    /\ Exists(fs0, cwd \o <<PKG, NODE_MODULES, M_JS>>)
    /\ pc = "resolved"
    /\ Exists(fs, Append(dest, GIT))
    /\ Exists(fs, dest \o <<NODE_MODULES, <<"dep">>>>)
    /\ ~Exists(fs, dest \o <<PKG, NODE_MODULES>>)

\* C5: for every tracked file that is modified in the source, after a run
\* that resolved the file in the destination has its committed content (of
\* the commit checked out there, when that commit has the file) and the file
\* in the source still has the modified content
TrackedModified ==
    {rel \in DOMAIN repo.head :
        Exists(fs0, cwd \o rel) /\ fs0[cwd \o rel] # repo.head[rel]}

C5_TrackedChangesDiscarded ==
    (SourceIsRepo /\ pc = "resolved") =>
        \A rel \in TrackedModified :
           /\ rel \in DOMAIN Tree(wt) =>
                 /\ Exists(fs, dest \o rel)
                 /\ fs[dest \o rel] = Tree(wt)[rel]
           /\ Exists(fs, cwd \o rel)
           /\ fs[cwd \o rel] = fs0[cwd \o rel]

\* the untracked files of the source, relative to it
UntrackedInSource == {RelTo(cwd, p) : p \in Untracked(fs0, cwd, repo.head)}

\* the ones a copy is meant to carry over: all of them, but for what lies
\* under a node_modules directory of a package-based source
MeantToBeCopied ==
    {rel \in UntrackedInSource : ~(PackageBased /\ UnderNodeModules(rel))}

\* C6: when clean is not requested, after a run that resolved every untracked
\* file of the source (node_modules of a package-based source aside) is in
\* the destination with the content it has in the source, unless the commit
\* that was checked out has a file of that name
C6_UntrackedFilesSurvive ==
    (SourceIsRepo /\ ~opts.clean /\ pc = "resolved") =>
        \A rel \in MeantToBeCopied :
           \/ rel \in DOMAIN Tree(wt)
           \/ /\ Exists(fs, dest \o rel)
              /\ fs[dest \o rel] = fs0[cwd \o rel]

\* the position of the first command with these arguments, 0 if there is none
Ran(args) ==
    LET is == {i \in 1..Len(cmds) : cmds[i].cmd = "git" /\ cmds[i].args = args}
    IN  IF is = {} THEN 0 ELSE CHOOSE i \in is : \A j \in is : i <= j

\* C7: when clean is requested, after a run that resolved every file that was
\* untracked and not ignored is absent from the destination (unless checkout
\* or install wrote a file of that name afterwards), every file that was
\* untracked and ignored is still there (node_modules of a package-based
\* source aside), and clean ran after reset and before any checkout
C7_CleanRemovesUntracked ==
    (SourceIsRepo /\ opts.clean /\ pc = "resolved") =>
        /\ \A rel \in MeantToBeCopied :
              IF rel \in repo.ignored
              THEN Exists(fs, dest \o rel)
              ELSE \/ ~Exists(fs, dest \o rel)
                   \/ rel \in DOMAIN Tree(wt)
                   \/ fs[dest \o rel] = "lock:written"
        /\ 0 < Ran(<<"reset", "--hard">>)
        /\ Ran(<<"reset", "--hard">>) < Ran(<<"clean", "-fd">>)
        /\ \A i \in 1..Len(cmds) :
              (Len(cmds[i].args) > 0 /\ cmds[i].args[1] = "checkout") =>
                  Ran(<<"clean", "-fd">>) < i

\* C8 as stated: without a destination, defaultDest returns the first path
\* of <base>-dup, <base>-dup-1, <base>-dup-2, ... that does not exist
Numbered(i) ==
    Append(Dirname(cwd),
           IF i = 0 THEN DupName(Basename(cwd))
           ELSE DupNameN(Basename(cwd), i))

Returned == ~opts.dest.given /\ pc = "check"

FirstUnused(last) ==
    \E i \in 0..last :
        /\ dest = Numbered(i)
        /\ ~Exists(fs0, dest)
        /\ \A j \in 0..(i - 1) : Exists(fs0, Numbered(j))

C8_AsStated == Returned => FirstUnused(MaxAttempts)

\* C8, amended: defaultDest returns the first path that does not exist among
\* the 1000 candidates <base>-dup, <base>-dup-1, ..., <base>-dup-999; when
\* all of them exist it returns <base>-dup-<stamp> for the time of the call
C8_FirstUnusedOfThousand ==
    Returned =>
        \/ FirstUnused(MaxAttempts - 1)
        \/ /\ \A j \in 0..(MaxAttempts - 1) : Exists(fs0, Numbered(j))
           /\ dest = Append(Dirname(cwd),
                            Basename(cwd) \o <<"-dup-">> \o
                               SubSeq(StripSeparators(toISOString(clock)),
                                      1, StampLen))

C8_Witness ==
    /\ Returned
    /\ Exists(fs0, Numbered(0))
    /\ ~Exists(fs0, Numbered(1))
    /\ dest = Numbered(1)

\* C9 as stated: two fallback names made in different seconds differ
SecondOf(d) == <<d.year, d.month, d.day, d.hour, d.minute, d.second>>

MinuteOf(d) == <<d.year, d.month, d.day, d.hour, d.minute>>

C9_AsStated ==
    \A a \in stamped, b \in stamped :
        SecondOf(a.at) # SecondOf(b.at) => a.dest # b.dest

\* C9, amended: the time stamp of the fallback name has minute granularity:
\* two fallback names made in different minutes differ, two made in the same
\* minute are the same
C9_UniquePerMinute ==
    \A a \in stamped, b \in stamped :
        (MinuteOf(a.at) # MinuteOf(b.at)) <=> (a.dest # b.dest)

C9_Witness ==
    \E a \in stamped, b \in stamped :
        /\ MinuteOf(a.at) # MinuteOf(b.at)
        /\ a.dest # b.dest
        /\ \A j \in 0..(MaxAttempts - 1) : Exists(fs, Numbered(j))

\* C10: with a PR number n and no branch, a run that resolved has run, in the
\* destination and one right after the other, git fetch <remote>
\* pull/<n>/head:pr-<n> (remote "origin" when none is given) and git checkout
\* pr-<n>, and the result's checkedOut is pr-<n>
C10_PrFetchedThenCheckedOut ==
    (opts.hasPr /\ opts.branch = "" /\ pc = "resolved") =>
        LET n == ToString(opts.pr)
            remote == IF opts.remote = "" THEN "origin" ELSE opts.remote
            fetch == [cmd |-> "git", cwd |-> dest,
                      args |-> <<"fetch", remote,
                                 "pull/" \o n \o "/head:pr-" \o n>>]
            checkout == [cmd |-> "git", cwd |-> dest,
                         args |-> <<"checkout", "pr-" \o n>>]
        IN  /\ \E i \in 1..(Len(cmds) - 1) :
                  cmds[i] = fetch /\ cmds[i + 1] = checkout
            /\ outcome.result.checkedOut = "pr-" \o n
            /\ outcome.result.dest = dest

C10_Witness ==
    /\ opts.hasPr
    /\ opts.branch = ""
    /\ opts.remote = "upstream"
    /\ pc = "resolved"
    /\ outcome.result.checkedOut = "pr-2"
    /\ wt = "other"

\* C11: when both a branch and a PR number are supplied only the branch is
\* acted on: no PR fetch is spawned, no git:pr:start or git:pr:done event is
\* emitted, a run that resolved has checked the branch out and reports it as
\* checkedOut; the PR path is taken only when no branch is set
PrCommand(p) ==
    /\ p.cmd = "git"
    /\ Len(p.args) = 3
    /\ p.args[1] = "fetch"
    /\ p.args[3] = "pull/" \o ToString(opts.pr) \o "/head:pr-" \o ToString(opts.pr)

C11_BranchBeforePr ==
    /\ (opts.branch # "" /\ opts.hasPr) =>
          /\ \A i \in 1..Len(cmds) : ~PrCommand(cmds[i])
          /\ ~Emitted("git:pr:start")
          /\ ~Emitted("git:pr:done")
          /\ pc = "resolved" =>
                /\ outcome.result.checkedOut = opts.branch
                /\ \E i \in 1..Len(cmds) :
                      cmds[i] = [cmd |-> "git", cwd |-> dest,
                                 args |-> <<"checkout", opts.branch>>]
    /\ (Emitted("git:pr:start") \/ \E i \in 1..Len(cmds) : PrCommand(cmds[i]))
          => opts.branch = ""

C11_Witness ==
    /\ opts.branch = "feature"
    /\ opts.hasPr
    /\ pc = "resolved"
    /\ outcome.result.checkedOut = "feature"
    /\ Emitted("git:branch:done")

\* the install skip events emitted so far
Skips == {i \in 1..Len(events) : events[i].type = "node:install:skip"}

OneSkip(reason) ==
    /\ Cardinality(Skips) = 1
    /\ \A i \in Skips : events[i].reason = reason

\* no install command has been spawned and no node:install:start emitted
NoInstall ==
    /\ ~Emitted("node:install:start")
    /\ \A i \in 1..Len(cmds) :
          cmds[i].cmd \in PackageManagers => cmds[i].args = <<"--version">>

\* detectPackageManager has been called and has ended, one way or another
DetectionOver == tools # Unprobed

\* C12: for a package-based project, a run with install disabled emits
\* exactly one skip event, with the reason "install disabled by option"; a
\* run with install enabled on a machine where no package manager's
\* executable is invocable emits exactly one skip event, with the reason "no
\* package manager available", and resolves; in both cases no install
\* command is spawned and no node:install:start is emitted
C12_InstallSkipReasons ==
    /\ (PackageBased /\ ~opts.install) =>
          /\ NoInstall
          /\ pc = "resolved" => OneSkip("install disabled by option")
    /\ (PackageBased /\ opts.install /\ DetectionOver
          /\ \A m \in PackageManagers : tools[m] # "ok") =>
          /\ NoInstall
          /\ OneSkip("no package manager available")
          /\ pc = "resolved"

\* C13: the promise of gitdup settles exactly once, whatever the processes
\* it spawns do, an executable that cannot be started included: a run that
\* has stopped has resolved with a result or rejected with an error
AwaitPoints == {"start", "dest", "probe", "check", "cp", "reset", "clean",
                "remote", "fetchAll", "checkoutBranch", "fetchPr",
                "checkoutPr", "detect", "install"}

\* gitdup is not suspended at any await: nothing of it will run again
Stopped == pc \notin AwaitPoints

C13_SettlesExactlyOnce ==
    /\ outcome.state \in {"pending", "resolved", "rejected"}
    /\ outcome.state = "resolved" =>
          pc = "resolved" /\ outcome.error = "" /\ outcome.result.dest = dest
    /\ outcome.state = "rejected" =>
          pc = "rejected" /\ outcome.error # "" /\ outcome.result = NoResult
    /\ Stopped => outcome.state \in {"resolved", "rejected"}

\* the manager the manifest names, "" when it cannot be read or names none
Declared ==
    LET path == Append(dest, PACKAGE_JSON)
        c == IF Exists(fs, path) THEN fs[path] ELSE ""
    IN  CASE c = "pkg:bun" -> "bun"
          [] c = "pkg:pnpm" -> "pnpm"
          [] c = "pkg:yarn" -> "yarn"
          [] c = "pkg:npm" -> "npm"
          [] c = "pkg:deno" -> "deno"
          [] OTHER -> ""

Invocable(m) == m \in PackageManagers /\ tools[m] = "ok"

\* rule (2): the first of bun, pnpm, yarn, npm with its lock file and an
\* invocable executable, "" when there is none
ByLock ==
    LET order == <<"bun", "pnpm", "yarn", "npm">>
        lockOf == [m \in PackageManagers |->
                      CASE m = "bun" -> <<"bun", ".", "lockb">>
                        [] m = "pnpm" -> <<"pnpm-lock", ".", "yaml">>
                        [] m = "yarn" -> <<"yarn", ".", "lock">>
                        [] OTHER -> <<"package-lock", ".", "json">>]
        ok == {i \in 1..4 : /\ Exists(fs, Append(dest, lockOf[order[i]]))
                            /\ Invocable(order[i])}
    IN  IF ok = {} THEN "" ELSE order[CHOOSE i \in ok : \A j \in ok : i <= j]

\* the manager the three rules name, "" for none
ByPriority ==
    IF Invocable(Declared) THEN Declared
    ELSE IF ByLock # "" THEN ByLock
    ELSE IF Invocable("npm") THEN "npm"
    ELSE ""

\* detection has ended and the install command has not run yet
JustDetected ==
    /\ DetectionOver
    /\ ~Emitted("node:install:done")
    /\ pc \in {"install", "resolved"} \/ (pc = "crashed" /\ pm = NoPm)

\* C14: detection follows the priority (1) the manager the manifest names,
\* if its own executable is invocable, (2) else the first of bun, pnpm,
\* yarn, npm whose lock file exists and whose executable is invocable, (3)
\* else npm if invocable, else none; a declared manager that is not
\* available does not keep rule (2) from being applied
C14_DetectionPriority ==
    JustDetected => pc # "crashed" /\ pm.cmd = ByPriority

\* C15 as stated: whenever the lock file of the detected manager is in the
\* destination, the install command is the manager's frozen mode, not the
\* plain install
LockPresent(m) ==
    \/ m = "bun" /\ Exists(fs, Append(dest, <<"bun", ".", "lockb">>))
    \/ m = "pnpm" /\ Exists(fs, Append(dest, <<"pnpm-lock", ".", "yaml">>))
    \/ m = "yarn" /\ Exists(fs, Append(dest, <<"yarn", ".", "lock">>))
    \/ m = "npm" /\ Exists(fs, Append(dest, <<"package-lock", ".", "json">>))

C15_AsStated ==
    (pc = "install" /\ LockPresent(pm.cmd)) => pm.args # <<"install">>

\* C15, amended: npm and pnpm are run in their frozen mode (npm ci, pnpm
\* install --frozen-lockfile) exactly when their lock file is in the
\* destination; bun and yarn are always run as plain install
C15_FrozenForNpmAndPnpm ==
    pc = "install" =>
        /\ child = [cmd |-> pm.cmd, args |-> pm.args, cwd |-> dest]
        /\ pm.cmd = "npm" =>
              pm.args = IF LockPresent("npm") THEN <<"ci">> ELSE <<"install">>
        /\ pm.cmd = "pnpm" =>
              pm.args = IF LockPresent("pnpm")
                        THEN <<"install", "--frozen-lockfile">>
                        ELSE <<"install">>
        /\ pm.cmd \in {"bun", "yarn"} => pm.args = <<"install">>
        /\ pm.cmd \in PackageManagers

C15_Witness ==
    /\ pc = "install"
    /\ pm.cmd = "pnpm"
    /\ LockPresent("pnpm")
    /\ child.args = <<"install", "--frozen-lockfile">>

\* the text of the install commands
InstallText ==
    CASE pm.args = <<"ci">> -> pm.cmd \o " ci"
      [] pm.args = <<"install", "--frozen-lockfile">> ->
           pm.cmd \o " install --frozen-lockfile"
      [] OTHER -> pm.cmd \o " install"

\* the git stages the options ask for are over
VcsDone ==
    /\ Emitted("git:reset:done")
    /\ opts.clean => Emitted("git:clean:done")
    /\ opts.branch # "" => Emitted("git:branch:done")
    /\ (opts.branch = "" /\ opts.hasPr) => Emitted("git:pr:done")

\* C16: when a package manager is found and install is enabled, the install
\* command is spawned with the destination as working directory, after all
\* git steps; when it exits with a code other than 0 gitdup rejects with an
\* error that carries the command and the output that was captured, and
\* neither node:install:done nor done is emitted
C16_InstallFailureIsFatal ==
    pm # NoPm =>
        /\ opts.install
        /\ VcsDone
        /\ cmds[Len(cmds)] = [cmd |-> pm.cmd, args |-> pm.args, cwd |-> dest]
        /\ \A i \in 1..(Len(cmds) - 1) :
              cmds[i].cmd = "git" \/ cmds[i].args = <<"--version">>
        /\ pc = "rejected" =>
              /\ outcome.error = "CommandFailure"
              /\ outcome.message \in
                    {"Command failed: " \o InstallText \o "\n" \o out :
                        out \in IF opts.verbose THEN {""}
                                ELSE {"", "fatal: failed"}}
              /\ ~Emitted("node:install:done")
              /\ ~Emitted("done")

C16_Witness ==
    /\ pm.cmd = "npm"
    /\ pc = "rejected"
    /\ opts.branch # ""
    /\ outcome.message = "Command failed: npm ci\nfatal: failed"
    /\ Emitted("node:install:start")

\* C17: when the source directory has no .git, gitdup fails with
\* NotARepository before it resolves or validates the destination: no
\* directory is created, nothing is copied, no command is spawned and no
\* event is emitted
C17_NotARepositoryFirst ==
    ~SourceIsRepo =>
        /\ pc \in {"start", "rejected"}
        /\ pc = "rejected" => outcome.error = "NotARepository"
        /\ dest = <<>>
        /\ fs = fs0
        /\ cmds = <<>>
        /\ events = <<>>
        /\ child = NoChild

C17_Witness ==
    /\ ~SourceIsRepo
    /\ opts.dest = DestFull
    /\ pc = "rejected"
    /\ outcome.error = "NotARepository"
    /\ fs = fs0

\* the place of an event in the order of the stages; the branch pair and the
\* PR pair share a place, and so do node:install:start and node:install:skip
Rank(type) ==
    CASE type = "copy:skip-node_modules" -> 0
      [] type = "copy:start" -> 1
      [] type = "copy:done" -> 2
      [] type = "git:reset:start" -> 3
      [] type = "git:reset:done" -> 4
      [] type = "git:clean:start" -> 5
      [] type = "git:clean:done" -> 6
      [] type \in {"git:branch:start", "git:pr:start"} -> 7
      [] type \in {"git:branch:done", "git:pr:done"} -> 8
      [] type \in {"node:install:start", "node:install:skip"} -> 9
      [] type = "node:install:done" -> 10
      [] type = "done" -> 11

Pairs == {<<"copy:start", "copy:done">>,
          <<"git:reset:start", "git:reset:done">>,
          <<"git:clean:start", "git:clean:done">>,
          <<"git:branch:start", "git:branch:done">>,
          <<"git:pr:start", "git:pr:done">>,
          <<"node:install:start", "node:install:done">>}

\* C18: the events are emitted in the order of the stages: copy (with its
\* skip notice), reset, clean (only if requested), branch or PR (at most one
\* of the two), install start/done or one install skip (only for a
\* package-based project), done; no event of a later stage comes before one
\* of an earlier stage, each done comes after its start, and done is emitted
\* once, last, and only by a run that resolves
C18_EventsInStageOrder ==
    /\ \A i \in 1..Len(events), j \in 1..Len(events) :
          i < j => Rank(events[i].type) < Rank(events[j].type)
    /\ \A p \in Pairs : Emitted(p[2]) => Emitted(p[1])
    /\ Emitted("git:clean:start") => opts.clean
    /\ ~(Emitted("git:branch:start") /\ Emitted("git:pr:start"))
    /\ (Emitted("node:install:start") \/ Emitted("node:install:skip")) =>
          PackageBased
    /\ Emitted("done") <=> pc = "resolved"
    /\ pc = "resolved" =>
          /\ events[Len(events)].type = "done"
          /\ Emitted("copy:done") /\ Emitted("git:reset:done")
          /\ opts.clean => Emitted("git:clean:done")
          /\ opts.branch # "" => Emitted("git:branch:done")
          /\ (opts.branch = "" /\ opts.hasPr) => Emitted("git:pr:done")
          /\ PackageBased =>
                Emitted("node:install:done") \/ Emitted("node:install:skip")

C18_Witness ==
    /\ pc = "resolved"
    /\ opts.clean
    /\ Emitted("git:pr:done")
    /\ Emitted("node:install:done")
    /\ Len(events) = 12

\* the start event of the stage a git command belongs to
StageOf(p) ==
    CASE p.args = <<"reset", "--hard">> -> "git:reset:start"
      [] p.args = <<"clean", "-fd">> -> "git:clean:start"
      [] p.args \in {<<"remote">>, <<"fetch", "--all", "--prune">>,
                     <<"checkout", opts.branch>>} -> "git:branch:start"
      [] OTHER -> "git:pr:start"

\* the run has stopped without resolving, in one of the stages from the copy
\* to the checkout
FailedBeforeInstall ==
    /\ Stopped
    /\ pc # "resolved"
    /\ Emitted("copy:start")
    /\ ~Emitted("node:install:start")
    /\ ~DetectionOver

\* C19: when the copy, the reset, the clean, the branch checkout, the PR fetch
\* or the PR checkout fails, gitdup rejects at once: the done event of the
\* failing stage is not emitted, no command and no event of a later stage
\* occurs, done is not emitted and no result is returned
C19_StageFailureAborts ==
    FailedBeforeInstall =>
        /\ pc = "rejected"
        /\ outcome.state = "rejected"
        /\ outcome.error \in {"CopyFailure", "CommandFailure"}
        /\ outcome.result = NoResult
        /\ ~Emitted("done")
        /\ events[Len(events)].type \in {p[1] : p \in Pairs}
        /\ IF events[Len(events)].type = "copy:start" THEN cmds = <<>>
           ELSE /\ cmds # <<>>
                /\ StageOf(cmds[Len(cmds)]) = events[Len(events)].type
                /\ cmds[Len(cmds)].args \notin
                      {<<"remote">>, <<"fetch", "--all", "--prune">>}

\* the entries of the source directory, itself included
InSource(f) == {p \in DOMAIN f : IsPrefix(cwd, p)}

\* C20: every external command is run with the destination as its working
\* directory, and nothing of the source directory is created, modified or
\* deleted, its .git included
C20_SourceUntouched ==
    /\ \A i \in 1..Len(cmds) : cmds[i].cwd = dest
    /\ child # NoChild => child.cwd = dest
    /\ InSource(fs) = InSource(fs0)
    /\ \A p \in InSource(fs0) : fs[p] = fs0[p]

---------------------------------------------------------------------------
(* The branch stage *)

\* the arguments of the process the i-th entry of the trace is about
ArgsAt(i) == cmds[trace[i].id].args

\* the i-th entry of the trace is the end of a process: its close, or the
\* error of a process that could not be started
Ended(i) == trace[i].what \in {"close", "error"}

\* the i-th entry is a `git remote` that exited with code 0 and wrote the
\* name of at least one remote
ListedSome(i) ==
    /\ trace[i].what = "close"
    /\ ArgsAt(i) = <<"remote">>
    /\ trace[i].code = 0
    /\ \E j \in 1..Len(trace[i].out) : trace[i].out[j] \notin {"\n", " "}

FetchAll == <<"fetch", "--all", "--prune">>

\* git fetch --all --prune is spawned only right after a listing that
\* succeeded with a remote
FetchOnlyAfterListing ==
    \A i \in 1..Len(trace) :
        trace[i].what = "spawn" /\ ArgsAt(i) = FetchAll =>
            i > 1 /\ ListedSome(i - 1)

\* when the listing or the fetch has ended and no fetch is due, the next
\* thing that happens is the spawn of git checkout <branch>
CheckoutFollows(i) ==
    /\ i < Len(trace)
    /\ trace[i + 1].what = "spawn"
    /\ ArgsAt(i + 1) = <<"checkout", opts.branch>>

\* a checkout of the branch that exits with another code than 0 rejects the
\* run with the error of run, and git:branch:done is not emitted
CheckoutFailureFatal ==
    \A i \in 1..Len(trace) :
        /\ trace[i].what = "close"
        /\ ArgsAt(i) = <<"checkout", opts.branch>>
        /\ trace[i].code # 0
        => /\ pc = "rejected"
           /\ outcome.state = "rejected"
           /\ outcome.message =
                "Command failed: git checkout " \o opts.branch \o "\n"
                \o (IF trace[i].out = <<>> THEN "" ELSE trace[i].out[1])
           /\ ~Emitted("git:branch:done")

\* C21: in the branch stage git fetch --all --prune is issued only if git
\* remote succeeded and listed at least one remote; however the listing or
\* that fetch fails, the run does not fail and git checkout <branch> is
\* attempted next; a failure of that checkout rejects the run with the
\* underlying error and git:branch:done is not emitted
C21_BranchStageBestEffort ==
    /\ FetchOnlyAfterListing
    /\ \A i \in 1..Len(trace) :
          /\ Ended(i)
          /\ ArgsAt(i) \in {<<"remote">>, FetchAll}
          /\ ~ListedSome(i)
          => CheckoutFollows(i)
    /\ CheckoutFailureFatal

---------------------------------------------------------------------------
(* One process at a time *)

\* the processes alive after the first n entries of the trace: spawned and
\* not yet closed; a process that could not be started was never alive
Alive(n) ==
    {trace[i].id : i \in {j \in 1..n : trace[j].what = "spawn"}}
    \ {trace[i].id : i \in {j \in 1..n : Ended(j)}}

StartEvents ==
    {"copy:start", "git:reset:start", "git:clean:start", "git:branch:start",
     "git:pr:start", "node:install:start"}

\* C22: at every moment of a run at most one child process started by gitdup
\* is alive, and when a command is spawned or the start event of a stage is
\* emitted every process spawned before has exited
C22_OneChildAtATime ==
    \A n \in 1..Len(trace) :
        /\ Cardinality(Alive(n)) <= 1
        /\ \/ trace[n].what = "spawn"
           \/ /\ trace[n].what = "emit"
              /\ events[trace[n].id].type \in StartEvents
           => Alive(n - 1) = {}

\* a package-based duplicate made with a clean, a branch checkout and an
\* install: the processes of five stages and of the probes ran
C22_Witness ==
    /\ pc = "resolved"
    /\ Emitted("git:clean:done")
    /\ Emitted("git:branch:done")
    /\ Emitted("node:install:done")
    /\ Cardinality({i \in 1..Len(trace) : trace[i].what = "close"}) >= 6
    /\ Alive(Len(trace)) = {}

---------------------------------------------------------------------------
(* No retry, no rollback *)

\* how many processes were spawned whose command is in cs and whose first
\* argument is in firsts
Count(cs, firsts) ==
    Cardinality({i \in 1..Len(cmds) :
                    /\ cmds[i].cmd \in cs
                    /\ cmds[i].args # <<>>
                    /\ cmds[i].args[1] \in firsts})

AtMostOnce ==
    /\ Count({"git"}, {"reset"}) <= 1
    /\ Count({"git"}, {"clean"}) <= 1
    /\ Count({"git"}, {"fetch"}) <= 1
    /\ Count({"git"}, {"checkout"}) <= 1
    /\ Count(PackageManagers, {"install", "ci"}) <= 1

\* the step in which the run fails: it rejects, or it dies of the error of a
\* process that could not be started
Failing == pc # pc' /\ pc' \in {"rejected", "crashed"}

\* C23: reset, clean, fetch, checkout and install are each spawned at most
\* once in a run, and the step in which a run fails spawns nothing after the
\* process that failed and leaves the file system as it is: nothing written
\* to the destination is removed or reverted
C23_NoRetryNoRollback ==
    [][/\ AtMostOnce'
       /\ Failing =>
             /\ fs' = fs
             /\ events' = events
             /\ cmds' # <<>> =>
                   /\ trace'[Len(trace')].what \in {"close", "error"}
                   /\ trace'[Len(trace')].id = Len(cmds')]_vars

\* the install of a duplicate failed after its copy, its reset, its clean and
\* the checkout of a branch: the duplicate is still there
C23_Witness ==
    /\ pc = "rejected"
    /\ outcome.error = "CommandFailure"
    /\ Emitted("copy:done")
    /\ Emitted("git:clean:done")
    /\ Emitted("git:branch:done")
    /\ Emitted("node:install:start")
    /\ Count({"git"}, {"fetch"}) = 1
    /\ Exists(fs, dest \o <<GIT, HEAD>>)
    /\ Exists(fs, Append(dest, ENV))

---------------------------------------------------------------------------
(* The events of the copy *)

\* the positions of the events of a type
Where(type) == {i \in 1..Len(events) : events[i].type = type}

\* the file system when fs.cp is called: the destination has been created
AtCopy == IF Exists(fs0, dest) THEN fs0 ELSE Mkdir(fs0, dest)

\* C24: copy:skip-node_modules is emitted at most once, only for a
\* package-based project, and exactly once when the copy of such a project
\* starts; copy:start and copy:done bracket the copy: until copy:start is
\* emitted nothing has been copied, copy:done comes right after copy:start,
\* and when copy:done is emitted the copy is complete and did not fail
C24_CopyEventsBracket ==
    /\ Cardinality(Where("copy:skip-node_modules")) <= 1
    /\ Emitted("copy:skip-node_modules") => PackageBased
    /\ Emitted("copy:start") =>
          /\ Cardinality(Where("copy:start")) = 1
          /\ PackageBased =>
                Where("copy:skip-node_modules") = {1} /\ Where("copy:start") = {2}
          /\ ~PackageBased => Where("copy:start") = {1}
    /\ ~Emitted("copy:start") => fs = fs0
    /\ Emitted("copy:done") =>
          /\ Cardinality(Where("copy:done")) = 1
          /\ \A i \in Where("copy:start"), j \in Where("copy:done") : i + 1 = j
          /\ outcome.error # "CopyFailure"
    /\ pc = "reset" => fs = Cp(AtCopy, cwd, dest, PackageBased)
    /\ outcome.error = "CopyFailure" =>
          Emitted("copy:start") /\ ~Emitted("copy:done")

\* the copy of a package-based project is done: the notice was emitted once
\* and the duplicate has the files of the source
C24_Witness ==
    /\ pc = "reset"
    /\ PackageBased
    /\ Where("copy:skip-node_modules") = {1}
    /\ Where("copy:done") = {3}
    /\ Exists(fs, dest \o <<GIT, HEAD>>)
    /\ Exists(fs, Append(dest, PACKAGE_JSON))

---------------------------------------------------------------------------
(* What the copy leaves out *)

\* C25: when the copy is done the destination has no .git/index, and for a
\* source that is not package-based it has every other entry of the source
\* with the same content: dotfiles, directories named node_modules and the
\* rest of .git included
C25_OnlyIndexLeftOut ==
    pc = "reset" =>
        /\ ~Exists(fs, dest \o <<GIT, INDEX>>)
        /\ ~PackageBased =>
              \A p \in Below(fs0, cwd) :
                  RelTo(cwd, p) # <<GIT, INDEX>> =>
                      /\ Exists(fs, dest \o RelTo(cwd, p))
                      /\ fs[dest \o RelTo(cwd, p)] = fs0[p]

\* the copy of a source that is not package-based and has an index, a
\* dotfile and a node_modules directory is done
C25_Witness ==
    /\ pc = "reset"
    /\ ~PackageBased
    /\ Exists(fs0, cwd \o <<GIT, INDEX>>)
    /\ ~Exists(fs, dest \o <<GIT, INDEX>>)
    /\ Exists(fs, dest \o <<GIT, HEAD>>)
    /\ Exists(fs, Append(dest, ENV))
    /\ Exists(fs, dest \o <<NODE_MODULES, M_JS>>)

---------------------------------------------------------------------------
(* One decision for the exclusion and for the install *)

\* the install step has been entered: it emitted its skip event, or
\* detectPackageManager is being awaited or has ended
InstallEntered ==
    \/ Emitted("node:install:skip")
    \/ pc = "detect"
    \/ DetectionOver

Noticed == Emitted("copy:skip-node_modules")

\* C26: whether the project is package-based is decided once, from
\* package.json at the root of the source before the copy; the notice, the
\* exclusion of node_modules and the install step all follow that decision:
\* the install step is entered only if the notice was emitted, and it is
\* entered as soon as the git stages of a run with the notice are over,
\* whether or not the destination still has, or now has, a package.json
C26_OneDecision ==
    /\ Emitted("copy:start") =>
          /\ isNode = PackageBased
          /\ Noticed = isNode
    /\ pc = "reset" => fs = Cp(AtCopy, cwd, dest, Noticed)
    /\ InstallEntered => Noticed
    /\ (Noticed /\ VcsDone) => InstallEntered
    /\ pc = "resolved" => (InstallEntered <=> Noticed)

\* a branch without package.json was checked out in the duplicate of a
\* package-based project, and the install step was entered all the same
C26_Witness ==
    /\ pc = "resolved"
    /\ Noticed
    /\ Emitted("git:branch:done")
    /\ ~Exists(fs, Append(dest, PACKAGE_JSON))
    /\ InstallEntered

====
